---- MODULE Spec2Model ----
(***************************************************************************)
(* Model of the multi-agent request router (src/agents.py, src/tools.py).  *)
(*                                                                         *)
(* The core of the module is BaseAgent.process_request: the orchestration  *)
(* loop that consumes the fragments of a streamed model turn, accumulates  *)
(* text and tool-call deltas, dispatches the accumulated batch of tool     *)
(* calls and repeats until a turn ends with finish reason "stop".          *)
(*                                                                         *)
(* Text is modelled as a sequence of tokens: a Python string is the        *)
(* concatenation of its tokens, "" (and None, which the code treats the    *)
(* same way in its truthiness tests) is the empty sequence, and += is \o.  *)
(***************************************************************************)
EXTENDS Integers, Sequences, FiniteSets, TLC

\* ------------------------------------------------------------------------
\* Bounds of the exploration
\* ------------------------------------------------------------------------

\* provider calls (stream turns) made by one request
MaxTurns == 3

\* fragments delivered by the provider over one request
MaxChunks == 3

\* ------------------------------------------------------------------------
\* Text
\* ------------------------------------------------------------------------

\* None, or the empty string: both are falsy in the tests of lines 93-109
None == <<>>

\* ------------------------------------------------------------------------
\* The streaming chat provider (client.chat.completions.create, stream=True)
\* ------------------------------------------------------------------------

\* choice.finish_reason of a chunk: None ("none") until the chunk that ends
\* the choice, which carries the reason the model stopped
FinishReasons == {"none", "stop", "tool_calls", "length"}

\* delta.content of a chunk that carries text
ContentDelta == <<"Hi">>

\* slot indices a tool-call delta may carry
Indices == {0, 1}

\* id, function.name and function.arguments of the tool-call deltas the
\* provider sends: a whole call in one delta, the opening delta of a call
\* and its continuation (name "directory_" "tool", arguments {"dir
\* ectory":"x"}), and deltas carrying a single field
DeltaShapes ==
    { [id |-> <<"a">>, name |-> <<"get_order_detail">>, arguments |-> <<"{\"order_id\":\"7\"}">>],
      [id |-> <<"b">>, name |-> <<"directory_">>, arguments |-> <<"{\"dir">>],
      [id |-> None, name |-> <<"tool">>, arguments |-> <<"ectory\":\"x\"}">>],
      [id |-> None, name |-> None, arguments |-> <<"\"s\"">>],
      [id |-> <<"a">>, name |-> None, arguments |-> None],
      [id |-> None, name |-> <<"get_order_detail">>, arguments |-> None] }

\* one element of delta.tool_calls
ToolChunk(i, shape) ==
    [index |-> i, id |-> shape.id, name |-> shape.name, arguments |-> shape.arguments]

ToolChunks == {ToolChunk(i, shape) : i \in Indices, shape \in DeltaShapes}

\* the deltas that are also sent in a chunk that carries text
WholeCall == [id |-> <<"a">>, name |-> <<"get_order_detail">>, arguments |-> <<"{\"order_id\":\"7\"}">>]
ArgumentsOnly == [id |-> None, name |-> None, arguments |-> <<"\"s\"">>]

Chunk(content, tcs, reason) ==
    [content |-> content, tool_calls |-> tcs, finish_reason |-> reason]

\* chunks before the end of the stream: text, one tool-call delta, two
\* tool-call deltas, text together with a tool-call delta
StreamingChunks ==
    {Chunk(ContentDelta, None, "none")}
    \cup {Chunk(None, <<d>>, "none") : d \in ToolChunks}
    \cup {Chunk(None, <<ToolChunk(0, WholeCall), ToolChunk(1, ArgumentsOnly)>>, "none")}
    \cup {Chunk(ContentDelta, <<ToolChunk(i, shape)>>, "none") :
             i \in Indices, shape \in {WholeCall, ArgumentsOnly}}

\* the chunk that ends a stream carries the finish reason, with an empty
\* delta or with the last delta of the turn
ClosingChunks ==
    {Chunk(None, None, reason) : reason \in FinishReasons \ {"none"}}
    \cup {Chunk(ContentDelta, None, "stop")}
    \cup {Chunk(None, <<d>>, "tool_calls") : d \in ToolChunks}

\* the chunks a stream may deliver
Chunks == StreamingChunks \cup ClosingChunks

\* ------------------------------------------------------------------------
\* Tool registry (src/tools.py) and BaseAgent.execute_tool
\* ------------------------------------------------------------------------

\* what the file system or the order service does when a tool reaches it
ToolOutcomes == {"ok", "fail"}

\* json.loads on the arguments text.  Over the argument deltas of
\* DeltaShapes the only texts that are valid JSON are {"directory":"x"} and
\* {"order_id":"7"} (objects) and "s" (a JSON string); every other
\* concatenation, the empty text included, raises JSONDecodeError.
json_loads(text) ==
    IF text = <<"{\"dir", "ectory\":\"x\"}">>
      THEN [error |-> FALSE, kind |-> "dict", keys |-> {"directory"}]
    ELSE IF text = <<"{\"order_id\":\"7\"}">>
      THEN [error |-> FALSE, kind |-> "dict", keys |-> {"order_id"}]
    ELSE IF text = <<"\"s\"">>
      THEN [error |-> FALSE, kind |-> "str", keys |-> {}]
    ELSE [error |-> TRUE, kind |-> "none", keys |-> {}]

\* f(**args): TypeError unless args is a mapping whose keys are parameters
\* of f and include every parameter without a default
Binds(args, params, required) ==
    /\ args.kind = "dict"
    /\ args.keys \subseteq params
    /\ required \subseteq args.keys

Returned(text) == [raised |-> FALSE, value |-> text]
Raised(text) == [raised |-> TRUE, value |-> text]

\* tools.directory_tool: every failure is returned as an [ERROR] string
directory_tool(env) ==
    IF env = "fail" THEN Returned(<<"[ERROR] ", "Directory x not found">>)
    ELSE Returned(<<"Contents of x:">>)

\* tools.file_tool: every failure is returned as an [ERROR] string
file_tool(env) ==
    IF env = "fail" THEN Returned(<<"[ERROR] ", "File f not found">>)
    ELSE Returned(<<"File: f">>)

\* get_order_detail reporting a failed request the way the file tools do
get_order_detail_guarded(env) ==
    IF env = "fail" THEN Returned(<<"[ERROR] ", "Could not read order">>)
    ELSE Returned(<<"[{\"order_id\": 7}]">>)

\* tools.get_order_detail: no try/except; requests.get or response.json()
\* raising leaves the function as an exception
get_order_detail(env) ==
    IF env = "fail" THEN Raised(<<"ConnectionError">>)
    ELSE Returned(<<"[{\"order_id\": 7}]">>)

directory_tool_name == <<"directory_", "tool">>
file_tool_name == <<"file_", "tool">>
get_order_detail_name == <<"get_order_detail">>

\* execute_tool that raises on a name that is not in the registry
execute_tool_unknown_raises(tool_name, args, env) ==
    IF tool_name = directory_tool_name THEN
        IF Binds(args, {"directory"}, {"directory"})
        THEN directory_tool(env) ELSE Raised(<<"TypeError">>)
    ELSE IF tool_name = file_tool_name THEN
        IF Binds(args, {"filepath", "start_line", "end_line"}, {"filepath"})
        THEN file_tool(env) ELSE Raised(<<"TypeError">>)
    ELSE IF tool_name = get_order_detail_name THEN
        IF Binds(args, {"order_id"}, {"order_id"})
        THEN get_order_detail(env) ELSE Raised(<<"TypeError">>)
    ELSE Raised(<<"KeyError">>)

\* BaseAgent.execute_tool(tool_name, args)
execute_tool(tool_name, args, env) ==
    IF tool_name = directory_tool_name THEN
        IF Binds(args, {"directory"}, {"directory"})
        THEN directory_tool(env) ELSE Raised(<<"TypeError">>)
    ELSE IF tool_name = file_tool_name THEN
        IF Binds(args, {"filepath", "start_line", "end_line"}, {"filepath"})
        THEN file_tool(env) ELSE Raised(<<"TypeError">>)
    ELSE IF tool_name = get_order_detail_name THEN
        IF Binds(args, {"order_id"}, {"order_id"})
        THEN get_order_detail(env) ELSE Raised(<<"TypeError">>)
    ELSE Returned(<<"Unknown tool">>)

\* ------------------------------------------------------------------------
\* BaseAgent.process_request: state
\* ------------------------------------------------------------------------

VARIABLES
    pc,             \* position in process_request: "call" (line 81), "stream"
                    \* (line 88), "dispatch" (line 129), "done" (line 166),
                    \* "raised" (an exception left process_request)
    messages,       \* the conversation state sent with every provider call
    full_response,  \* text received so far
    tool_calls,     \* the tool-call accumulator
    used_tools,     \* the used-tools audit list
    finish_reason,  \* choice.finish_reason of the chunk consumed last
    call_idx,       \* position of "for call in tool_calls" (1-based, 0 outside)
    turn,           \* history: provider calls made so far
    chunks,         \* history: chunks delivered so far
    turn_chunks,    \* history: chunks delivered in the current turn
    sent,           \* history: per slot, the deltas the provider delivered for
                    \* each field in the current turn, in arrival order
    sent_finish,    \* history: the finish reason the provider put on the last chunk
    finishes,       \* history: the finish reason that ended each completed turn
    dispatches,     \* history: batches dispatched in the current turn
    calls_at,       \* history: Len(messages) at each provider call
    log,            \* history: what happened to each call of each dispatched batch
    text_sent       \* history: the text deltas the provider delivered, in arrival
                    \* order, over all turns

\* chat_with_ai (src/chat.py) and the router (src/agent_router.py): state
VARIABLES
    chat_pc,          \* position in chat_with_ai: "classify" (line 17), "extract"
                      \* (line 20), "memory_search" (line 25), "retrieve" (line 34),
                      \* "create_agent" (line 45), "process" (line 48),
                      \* "memory_add" (line 55), "returned" (line 62), "raised"
    user_prompt,      \* the user's text
    reply,            \* what the structured-decision provider answers to parse()
    memory_hits,      \* what memory_client.search returns
    doc_hits,         \* what retrieve returns
    classification,   \* result of router.classify_request
    extracted_params, \* the parameter mapping handed to the agent
    agent,            \* the agent AgentFactory.create_agent returned
    response,         \* what process_request returned
    memory_store,     \* the exchanges written with memory_client.add
    provider_calls,   \* history: calls of client.beta.chat.completions.parse
    constructed,      \* history: the constructions of ExtractedParams
    steps             \* history: the steps of chat_with_ai taken so far

chat_vars == <<chat_pc, user_prompt, reply, memory_hits, doc_hits, classification,
               extracted_params, agent, response, memory_store, provider_calls,
               constructed, steps>>

\* tools.file_tool run on a text file: state
VARIABLES
    file_lines,     \* content.splitlines() of the file
    start_line,     \* argument start_line
    end_line,       \* argument end_line
    file_result     \* what file_tool returned

file_vars == <<file_lines, start_line, end_line, file_result>>

\* tools.directory_tool run on a path: state
VARIABLES
    dir_kind,       \* what the path is: "missing", "file", "unreadable", "dir"
    dir_entries,    \* the entries of the directory: name -> kind of entry
    dir_result      \* what directory_tool returned

dir_vars == <<dir_kind, dir_entries, dir_result>>

loop_vars == <<pc, messages, full_response, tool_calls, used_tools, finish_reason,
               call_idx, turn, chunks, turn_chunks, sent, sent_finish, finishes,
               dispatches, calls_at, log, text_sent>>

vars == <<loop_vars, chat_vars, file_vars, dir_vars>>

history == <<turn, chunks, turn_chunks, sent, sent_finish, finishes, dispatches,
             calls_at, log, text_sent>>

\* one slot of the accumulator (line 100; the constant "type" key is left out)
EmptySlot == [id |-> None, name |-> None, arguments |-> None]

\* what the provider has delivered for every slot at the start of a turn
NothingSent == [i \in Indices |-> EmptySlot]

Message(role, content, calls, tool_name, tool_call_id) ==
    [role |-> role, content |-> content, tool_calls |-> calls,
     tool_name |-> tool_name, tool_call_id |-> tool_call_id]

\* lines 64-67
InitialMessages ==
    << Message("system", <<"system_prompt">>, <<>>, None, None),
       Message("user", <<"user_prompt">>, <<>>, None, None) >>

\* the value of a variable that holds nothing yet
Unset == [kind |-> "unset"]

\* a dict with no key
EmptyDict == [k \in {} |-> <<>>]

\* chat_with_ai is not running
ChatIdle ==
    /\ chat_pc = "idle"
    /\ user_prompt = <<"user_prompt">>
    /\ reply = Unset
    /\ memory_hits = <<>>
    /\ doc_hits = <<>>
    /\ classification = Unset
    /\ extracted_params = EmptyDict
    /\ agent = "none"
    /\ response = None
    /\ memory_store = <<>>
    /\ provider_calls = 0
    /\ constructed = <<>>
    /\ steps = <<>>

\* directory_tool is not running
DirIdle ==
    /\ dir_kind = "missing"
    /\ dir_entries = EmptyDict
    /\ dir_result = Unset

\* file_tool is not running
FileIdle ==
    /\ file_lines = <<>>
    /\ start_line = 1
    /\ end_line = -1
    /\ file_result = Unset

\* process_request is entered directly, with the two messages of lines 64-67
Init ==
    /\ ChatIdle
    /\ FileIdle
    /\ DirIdle
    /\ pc = "call"
    /\ messages = InitialMessages
    /\ full_response = None
    /\ tool_calls = <<>>
    /\ used_tools = <<>>
    /\ finish_reason = "unbound"
    /\ call_idx = 0
    /\ turn = 0
    /\ chunks = 0
    /\ turn_chunks = 0
    /\ sent = NothingSent
    /\ sent_finish = "none"
    /\ finishes = <<>>
    /\ dispatches = 0
    /\ calls_at = <<>>
    /\ log = <<>>
    /\ text_sent = None

\* ------------------------------------------------------------------------
\* BaseAgent.process_request: consuming one chunk (lines 88-110)
\* ------------------------------------------------------------------------

\* lines 99-100: one slot is appended when the index is not yet in the list
Grow(tcs, d) ==
    IF Len(tcs) <= d.index THEN Append(tcs, EmptySlot) ELSE tcs

\* line 101: tool_calls[tool_chunk.index] raises IndexError when the index
\* is still outside the list
SlotExists(tcs, d) == d.index < Len(Grow(tcs, d))

\* lines 103-110: every field present in the delta is appended to its slot
AddDelta(slot, d) ==
    [id        |-> IF d.id # None THEN slot.id \o d.id ELSE slot.id,
     name      |-> IF d.name # None THEN slot.name \o d.name ELSE slot.name,
     arguments |-> IF d.arguments # None THEN slot.arguments \o d.arguments
                   ELSE slot.arguments]

\* lines 99-110 for one element of delta.tool_calls
Accumulate(tcs, d) ==
    LET grown == Grow(tcs, d)
    IN  [grown EXCEPT ![d.index + 1] = AddDelta(@, d)]

RECURSIVE AccumulateAll(_, _)
\* lines 98-110: "for tool_chunk in delta.tool_calls"
AccumulateAll(tcs, ds) ==
    IF ds = <<>> THEN [raised |-> FALSE, tool_calls |-> tcs]
    ELSE IF ~SlotExists(tcs, Head(ds)) THEN [raised |-> TRUE, tool_calls |-> tcs]
    ELSE AccumulateAll(Accumulate(tcs, Head(ds)), Tail(ds))

\* ConsumeDelta assigning the text delta to the buffer instead of appending it
ConsumeDeltaOverwrite(text, tcs, chunk) ==
    IF chunk.content # None
      THEN [raised |-> FALSE, full_response |-> chunk.content, tool_calls |-> tcs]
    ELSE IF chunk.tool_calls # None
      THEN LET acc == AccumulateAll(tcs, chunk.tool_calls)
           IN  [raised |-> acc.raised, full_response |-> text, tool_calls |-> acc.tool_calls]
    ELSE [raised |-> FALSE, full_response |-> text, tool_calls |-> tcs]

\* lines 93-110: text is consumed if the chunk has any, else its tool-call deltas
ConsumeDelta(text, tcs, chunk) ==
    IF chunk.content # None
      THEN [raised |-> FALSE, full_response |-> text \o chunk.content, tool_calls |-> tcs]
    ELSE IF chunk.tool_calls # None
      THEN LET acc == AccumulateAll(tcs, chunk.tool_calls)
           IN  [raised |-> acc.raised, full_response |-> text, tool_calls |-> acc.tool_calls]
    ELSE [raised |-> FALSE, full_response |-> text, tool_calls |-> tcs]

\* ShouldDispatch without the test of the finish reason
ShouldDispatchOnAnyChunk(reason, tcs) == tcs # <<>>

\* line 113
ShouldDispatch(reason, tcs) == reason = "tool_calls" /\ tcs # <<>>

\* ConversationComplete taking any finish reason for the end of the conversation
ConversationCompleteOnAnyFinish(reason) == reason # "none"

\* line 156
ConversationComplete(reason) == reason = "stop"

\* lines 114-127: the assistant message holding the batch
BatchMessage(tcs) == Message("assistant", None, tcs, None, None)

\* ToolMessage with the tool name and the call id exchanged
ToolMessageSwapped(tool_name, call_id, result) ==
    Message("tool", result, <<>>, call_id, tool_name)

\* lines 146-151
ToolMessage(tool_name, call_id, result) ==
    Message("tool", result, <<>>, tool_name, call_id)

RECURSIVE RecordSent(_, _)
\* history: the deltas of a chunk added to what the provider has delivered
RecordSent(s, ds) ==
    IF ds = <<>> THEN s
    ELSE RecordSent([s EXCEPT ![Head(ds).index] = AddDelta(@, Head(ds))], Tail(ds))

\* where process_request goes when the stream of the turn is exhausted
\* (lines 155-158)
AfterStream(reason) == IF ConversationComplete(reason) THEN "done" ELSE "call"

\* lines 81-86: the next provider call opens a stream
ProviderCall ==
    /\ UNCHANGED <<chat_vars, file_vars, dir_vars>>
    /\ pc = "call"
    /\ turn < MaxTurns
    /\ pc' = "stream"
    /\ turn' = turn + 1
    /\ turn_chunks' = 0
    /\ sent' = NothingSent
    /\ dispatches' = 0
    /\ calls_at' = Append(calls_at, Len(messages))
    /\ UNCHANGED <<messages, full_response, tool_calls, used_tools, finish_reason,
                   call_idx, chunks, sent_finish, finishes, log, text_sent>>

\* lines 88-127: the stream delivers a chunk.  A chunk with a finish reason
\* is the last chunk of its stream.
ConsumeChunk ==
    /\ UNCHANGED <<chat_vars, file_vars, dir_vars>>
    /\ pc = "stream"
    /\ chunks < MaxChunks
    /\ \E chunk \in Chunks :
        LET got == ConsumeDelta(full_response, tool_calls, chunk)
            last == chunk.finish_reason # "none"
        IN  /\ chunks' = chunks + 1
            /\ turn_chunks' = turn_chunks + 1
            /\ sent' = RecordSent(sent, chunk.tool_calls)
            /\ text_sent' = text_sent \o chunk.content
            /\ sent_finish' = chunk.finish_reason
            /\ finish_reason' = chunk.finish_reason
            /\ UNCHANGED <<used_tools, turn, calls_at, log>>
            /\ IF got.raised
                 THEN /\ pc' = "raised"
                      /\ UNCHANGED <<messages, full_response, tool_calls, call_idx,
                                     finishes, dispatches>>
               ELSE IF ShouldDispatch(chunk.finish_reason, got.tool_calls)
                 THEN /\ pc' = "dispatch"
                      /\ messages' = Append(messages, BatchMessage(got.tool_calls))
                      /\ full_response' = got.full_response
                      /\ tool_calls' = got.tool_calls
                      /\ call_idx' = 1
                      /\ dispatches' = dispatches + 1
                      /\ UNCHANGED finishes
               ELSE /\ pc' = IF last THEN AfterStream(chunk.finish_reason) ELSE "stream"
                    /\ finishes' = IF last THEN Append(finishes, chunk.finish_reason)
                                   ELSE finishes
                    /\ full_response' = got.full_response
                    /\ tool_calls' = got.tool_calls
                    /\ UNCHANGED <<messages, call_idx, dispatches>>

\* lines 88, 155-158: the stream ends after a chunk without a finish reason
StreamEnd ==
    /\ UNCHANGED <<chat_vars, file_vars, dir_vars>>
    /\ pc = "stream"
    /\ turn_chunks > 0
    /\ pc' = AfterStream(finish_reason)
    /\ finishes' = Append(finishes, sent_finish)
    /\ UNCHANGED <<messages, full_response, tool_calls, used_tools, finish_reason,
                   call_idx, turn, chunks, turn_chunks, sent, sent_finish,
                   dispatches, calls_at, log, text_sent>>

\* ------------------------------------------------------------------------
\* BaseAgent.process_request: dispatching the batch (lines 129-153)
\* ------------------------------------------------------------------------

\* SlotOfIteration visiting the slots last to first
SlotOfIterationReversed(tcs, k) == Len(tcs) + 1 - k

\* line 129: "for call in tool_calls" visits the slots in list order
SlotOfIteration(tcs, k) == k

\* line 134: the tool name is recorded before the arguments are parsed
TrackUsage(used, tool_name) == Append(used, tool_name)

\* SkipsCall also skipping arguments that parse to something else than an object
SkipsCallOrNonObject(call) ==
    json_loads(call.arguments).error \/ json_loads(call.arguments).kind # "dict"

\* SkipsCall that skips nothing: the call goes to execute_tool whatever its arguments
SkipsCallNever(call) == FALSE

\* lines 136-139: a call whose arguments raise JSONDecodeError is skipped
SkipsCall(call) == json_loads(call.arguments).error

\* ToolResult without the except clause: the exception leaves process_request
ToolResultUncaught(tool_name, args, env) ==
    LET r == execute_tool(tool_name, args, env)
    IN  [propagates |-> r.raised, content |-> r.value]

\* lines 141-144: an exception of execute_tool becomes the result text
ToolResult(tool_name, args, env) ==
    LET r == execute_tool(tool_name, args, env)
    IN  IF r.raised
          THEN [propagates |-> FALSE,
                content |-> <<"Error executing tool ">> \o tool_name \o <<": ">> \o r.value]
        ELSE [propagates |-> FALSE, content |-> r.value]

\* line 153
ClearedAccumulator == <<>>

RECURSIVE LastBatchAt(_, _)
\* history: position of the last assistant message among the first n messages
LastBatchAt(msgs, n) ==
    IF n = 0 THEN 0
    ELSE IF msgs[n].role = "assistant" THEN n
    ELSE LastBatchAt(msgs, n - 1)

\* history: the call binds to the parameters of a tool of the registry, so
\* that the body of the tool runs
ReachesTool(tool_name, args) ==
    \/ tool_name = directory_tool_name /\ Binds(args, {"directory"}, {"directory"})
    \/ tool_name = file_tool_name
         /\ Binds(args, {"filepath", "start_line", "end_line"}, {"filepath"})
    \/ tool_name = get_order_detail_name /\ Binds(args, {"order_id"}, {"order_id"})

\* history: what one iteration of the dispatch loop did: the slot visited, the
\* call found there, whether it was skipped, and what the registry was given
\* and gave back
LogEntry(slot, call, env) ==
    LET args == json_loads(call.arguments)
        reached == ~args.error /\ ReachesTool(call.name, args)
    IN  [turn |-> turn, batch |-> LastBatchAt(messages, Len(messages)), slot |-> slot,
         id |-> call.id, name |-> call.name, arguments |-> call.arguments,
         env |-> IF reached THEN env ELSE "unused",
         outcome |-> IF args.error THEN "skipped"
                     ELSE IF execute_tool(call.name, args, env).raised THEN "raised"
                     ELSE "returned",
         value |-> IF args.error THEN None ELSE execute_tool(call.name, args, env).value]

\* lines 129-153: one iteration of "for call in tool_calls"; after the last
\* one the accumulator is cleared and the chunk loop goes on: with the next
\* chunk, or, the stream being exhausted, with the loop test of line 156
DispatchCall ==
    /\ UNCHANGED <<chat_vars, file_vars, dir_vars>>
    /\ pc = "dispatch"
    /\ \E env \in ToolOutcomes :
        LET slot == SlotOfIteration(tool_calls, call_idx)
            call == tool_calls[slot]
            skip == SkipsCall(call)
            res  == ToolResult(call.name, json_loads(call.arguments), env)
            last == call_idx = Len(tool_calls)
            exhausted == sent_finish # "none"
        IN  /\ used_tools' = TrackUsage(used_tools, call.name)
            /\ log' = Append(log, LogEntry(slot, call, env))
            /\ UNCHANGED <<full_response, finish_reason, turn, chunks, turn_chunks,
                           sent, sent_finish, dispatches, calls_at, text_sent>>
            /\ IF ~skip /\ res.propagates
                 THEN /\ pc' = "raised"
                      /\ UNCHANGED <<messages, tool_calls, call_idx, finishes>>
               ELSE /\ messages' = IF skip THEN messages
                                   ELSE Append(messages,
                                               ToolMessage(call.name, call.id, res.content))
                    /\ IF last
                         THEN /\ tool_calls' = ClearedAccumulator
                              /\ call_idx' = 0
                              /\ finishes' = IF exhausted THEN Append(finishes, sent_finish)
                                             ELSE finishes
                              /\ pc' = IF exhausted THEN AfterStream(finish_reason)
                                       ELSE "stream"
                       ELSE /\ call_idx' = call_idx + 1
                            /\ UNCHANGED <<pc, tool_calls, finishes>>

Next ==
    \/ ProviderCall
    \/ ConsumeChunk
    \/ StreamEnd
    \/ DispatchCall

Spec == Init /\ [][Next]_vars

\* ------------------------------------------------------------------------
\* Properties of process_request
\* ------------------------------------------------------------------------

ToolMessages == SelectSeq(messages, LAMBDA m : m.role = "tool")

RanEntries == SelectSeq(log, LAMBDA e : e.outcome # "skipped")

\* C1: every message with role "tool" carries the id of a call of an
\* assistant tool-call batch message that stands earlier in the message list
C1_NoOrphanToolResult ==
    \A i \in 1..Len(messages) :
        messages[i].role = "tool" =>
            \E j \in 1..(i - 1) :
                /\ messages[j].role = "assistant"
                /\ \E k \in 1..Len(messages[j].tool_calls) :
                       messages[j].tool_calls[k].id = messages[i].tool_call_id

\* a tool-result with a non-empty call id stands behind a batch of two calls
C1_Witness ==
    \E i \in 1..Len(messages) :
        /\ messages[i].role = "tool"
        /\ messages[i].tool_call_id # None
        /\ \E j \in 1..(i - 1) : Len(messages[j].tool_calls) = 2

\* C2: the loop is left at the end of a turn exactly when the finish reason
\* of that turn is "stop": process_request is done only after a turn that
\* ended with "stop", and a turn that ended with "stop" is the last turn
C2_DoneIffStop ==
    /\ pc = "done" => finishes # <<>> /\ finishes[Len(finishes)] = "stop"
    /\ \A i \in 1..Len(finishes) :
           finishes[i] = "stop" => i = Len(finishes) /\ pc = "done"
    /\ pc = "call" => Len(finishes) = turn
    /\ pc = "done" => Len(finishes) = turn

\* the loop went round after a turn that ended with "tool_calls" and after a
\* turn that ended with another reason, and was left after a "stop"
C2_Witness ==
    /\ pc = "done"
    /\ Len(finishes) = 3
    /\ finishes[1] = "tool_calls"
    /\ finishes[2] \in {"none", "length"}

\* C3: a batch message is appended, a tool is invoked and a tool-result is
\* appended only while the chunk being consumed has finish reason
\* "tool_calls", and a turn dispatches at most one batch
C3_DispatchOnlyOnToolCalls ==
    [][ /\ (messages' # messages \/ log' # log \/ used_tools' # used_tools)
            => sent_finish' = "tool_calls"
        /\ dispatches' <= 1 ]_vars

\* a batch was dispatched in a turn that had delivered text and deltas in
\* chunks without a finish reason
C3_Witness ==
    /\ dispatches = 1
    /\ turn_chunks >= 3
    /\ full_response # None
    /\ \E i \in 1..Len(log) : log[i].turn = turn /\ log[i].outcome # "skipped"

\* C4: the calls of a batch are processed one per step in slot order, the
\* tool-results stand in the message list in that order, and the next
\* provider call is made only when every slot of the batch was processed
C4_DispatchInSlotOrder ==
    /\ \A i \in 1..Len(log) :
           /\ log[i].slot = IF i > 1 /\ log[i - 1].batch = log[i].batch
                            THEN log[i - 1].slot + 1 ELSE 1
           /\ messages[log[i].batch].role = "assistant"
           /\ log[i].slot <= Len(messages[log[i].batch].tool_calls)
           /\ messages[log[i].batch].tool_calls[log[i].slot].id = log[i].id
           /\ messages[log[i].batch].tool_calls[log[i].slot].name = log[i].name
    /\ Len(ToolMessages) = Len(RanEntries)
    /\ \A i \in 1..Len(ToolMessages) :
           /\ ToolMessages[i].tool_call_id = RanEntries[i].id
           /\ ToolMessages[i].tool_name = RanEntries[i].name
    /\ pc \in {"call", "stream", "done"} =>
           \A p \in 1..Len(messages) :
               messages[p].role = "assistant" =>
                   Cardinality({i \in 1..Len(log) : log[i].batch = p})
                       = Len(messages[p].tool_calls)

\* a batch of two calls with different ids was dispatched, both calls got
\* their tool-result, and the next provider call was made
C4_Witness ==
    /\ pc = "stream"
    /\ \E i \in 1..Len(log) :
           /\ i < Len(log)
           /\ log[i].batch = log[i + 1].batch
           /\ log[i].turn < turn
           /\ log[i].outcome # "skipped"
           /\ log[i + 1].outcome # "skipped"
           /\ log[i].id # log[i + 1].id

\* C5: when the batch is dispatched, id, name and arguments of every slot
\* are the concatenation, in arrival order, of the deltas the provider
\* delivered for that field of that slot during the turn
C5_SlotsEqualDeliveredDeltas ==
    pc = "dispatch" =>
        \A i \in Indices :
            IF i < Len(tool_calls) THEN tool_calls[i + 1] = sent[i]
            ELSE sent[i] = EmptySlot

\* C6: a call whose arguments do not parse is skipped (no tool-result, no
\* invocation), every call whose arguments parse gets its tool-result, and
\* after the last call of the batch the loop makes the next provider call
C6_SkipOnlyUnparsableCall ==
    [][ pc = "dispatch" =>
          LET call == tool_calls[call_idx]
              bad  == json_loads(call.arguments).error
              done == log'[Len(log')]
              m    == messages'[Len(messages')]
          IN  /\ Len(log') = Len(log) + 1
              /\ bad => messages' = messages /\ done.outcome = "skipped"
              /\ ~bad => /\ done.outcome \in {"returned", "raised"}
                         /\ Len(messages') = Len(messages) + 1
                         /\ SubSeq(messages', 1, Len(messages)) = messages
                         /\ m.role = "tool"
                         /\ m.tool_call_id = call.id
                         /\ m.tool_name = call.name
              /\ pc' = IF call_idx = Len(tool_calls) THEN "call" ELSE "dispatch"
              /\ call_idx < Len(tool_calls) => call_idx' = call_idx + 1 ]_vars

\* a batch with a skipped call followed by a call that got its tool-result
\* was dispatched and the loop stands at the next provider call
C6_Witness ==
    /\ pc = "call"
    /\ \E i \in 1..Len(log) :
           /\ i < Len(log)
           /\ log[i].batch = log[i + 1].batch
           /\ log[i].outcome = "skipped"
           /\ log[i + 1].outcome # "skipped"
           /\ messages[Len(messages)].role = "tool"

\* C7: when execute_tool raises, the loop appends a tool-result for that
\* call id whose content is the error text and goes on with the next call;
\* no step of the dispatch loop leaves process_request with an exception
C7_ToolExceptionBecomesResult ==
    [][ pc = "dispatch" =>
          LET call == tool_calls[call_idx]
              done == log'[Len(log')]
              m    == messages'[Len(messages')]
          IN  /\ pc' # "raised"
              /\ done.outcome = "raised" =>
                     /\ messages' = Append(messages, m)
                     /\ m.role = "tool"
                     /\ m.tool_call_id = call.id
                     /\ m.content = <<"Error executing tool ">> \o call.name
                                        \o <<": ">> \o done.value
                     /\ call_idx < Len(tool_calls) =>
                            pc' = "dispatch" /\ call_idx' = call_idx + 1 ]_vars

\* the order service failed for one call and the arguments of the next call
\* of the batch did not bind; both have their error text as tool-result
C7_Witness ==
    \E i \in 1..Len(log) :
        /\ i < Len(log)
        /\ log[i].batch = log[i + 1].batch
        /\ log[i].outcome = "raised" /\ log[i].env = "fail"
        /\ log[i + 1].outcome = "raised" /\ log[i + 1].env = "unused"
        /\ Len(ToolMessages) >= 2
        /\ Head(ToolMessages[Len(ToolMessages)].content) = "Error executing tool "

KnownTools == {directory_tool_name, file_tool_name, get_order_detail_name}

C9_AuditListMatchesResults ==
    pc = "done" =>
        used_tools = [i \in 1..Len(ToolMessages) |-> ToolMessages[i].tool_name]

\* C10: at every provider call the tool-call accumulator is empty
C10_AccumulatorEmptyAtTurnStart ==
    pc = "call" => tool_calls = <<>>

\* ------------------------------------------------------------------------
\* models.py: AgentType, ExtractedParams, RouteClassification
\* ------------------------------------------------------------------------

\* AgentType (lines 5-9): the values of the enumeration
AgentType == {"developer_assistant", "customer_assistant", "general_assistant"}

\* an Optional[str]: None, or a text (a sequence of tokens, possibly empty)
Null == [null |-> TRUE, str |-> <<>>]

Str(text) == [null |-> FALSE, str |-> text]

\* the fields ExtractedParams declares (lines 13-15)
ExtractedParamsFields == {"directory", "file_path", "order_id"}

\* ExtractedParams(**kwargs) with a declared Config that forbids extra fields
ExtractedParamsForbidExtra(kwargs) ==
    IF DOMAIN kwargs \subseteq ExtractedParamsFields
    THEN [raises |-> FALSE,
          value |-> [f \in ExtractedParamsFields |->
                        IF f \in DOMAIN kwargs THEN kwargs[f] ELSE Null]]
    ELSE [raises |-> TRUE, value |-> [f \in ExtractedParamsFields |-> Null]]

\* ExtractedParams(**kwargs), lines 11-15: the class declares no Config, so
\* pydantic's default extra = 'ignore' applies: a keyword that is not a
\* declared field is dropped without error; a declared field that is not
\* given takes its default None
ExtractedParams(kwargs) ==
    [raises |-> FALSE,
     value |-> [f \in ExtractedParamsFields |->
                   IF f \in DOMAIN kwargs THEN kwargs[f] ELSE Null]]

\* confidence is a float; the model counts it in tenths
ConfidenceMin == 0

ConfidenceMax == 10

\* a value of extracted_params: absent (None) or an ExtractedParams instance
NoParams == [present |-> FALSE, value |-> [f \in ExtractedParamsFields |-> Null]]

SomeParams(instance) == [present |-> TRUE, value |-> instance]

\* RouteClassification(...), lines 17-34: agent_type must be a value of
\* AgentType, confidence must satisfy ge=0.0 and le=1.0, and Config.extra =
\* "forbid" rejects any field that is not declared (extra says whether the
\* construction names one); a failed validation raises
RouteClassification(agent_type, confidence, reasoning, params, extra) ==
    IF /\ agent_type \in AgentType
       /\ ConfidenceMin <= confidence /\ confidence <= ConfidenceMax
       /\ ~extra
    THEN [raises |-> FALSE,
          value |-> [kind |-> "RouteClassification", agent_type |-> agent_type,
                     confidence |-> confidence, reasoning |-> reasoning,
                     extracted_params |-> params]]
    ELSE [raises |-> TRUE, value |-> [kind |-> "None"]]

\* ------------------------------------------------------------------------
\* agent_router.py: AgentRouter.classify_request (lines 16-62)
\* ------------------------------------------------------------------------

\* the user texts of the model
UserPrompts == { <<"user_prompt">>, <<>> }

\* the agent types a reply may name: the three of AgentType and one that is not
ReplyAgentTypes == AgentType \cup {"billing_assistant"}

\* the confidences a reply may name, in tenths: inside, on and outside [0, 1]
ReplyConfidences == {-1, 0, 5, 10, 11}

\* the texts a reply may put in a field of extracted_params
ReplyTexts == { <<>>, <<"x">> }

\* the keyword sets a reply may give for extracted_params: any subset of the
\* declared fields, each null, empty or a text, with or without the
\* undeclared field category (the system prompt's examples name it, lines 38-39)
ReplyKwargs ==
    UNION { [keys -> {Null} \cup {Str(t) : t \in ReplyTexts}] :
                keys \in SUBSET ExtractedParamsFields }
    \cup
    UNION { { [k \in keys \cup {"category"} |->
                  IF k = "category" THEN Str(<<"orders">>) ELSE kw[k]] :
              kw \in [keys -> {Null} \cup {Str(t) : t \in ReplyTexts}] } :
                keys \in SUBSET ExtractedParamsFields }

\* no keywords
NoKwargs == [k \in {} |-> Null]

\* the causes str(e) of a failed provider call
Causes == { <<"timeout">>, <<"connection error">>, <<>> }

\* what client.beta.chat.completions.parse does (lines 43-51):
\*   raises  - the call raises (timeout, connection, API error) with str(e) = cause
\*   refusal - it returns a message whose parsed is None (the model refused)
\*   content - it returns content, which parse validates as a RouteClassification
Replies ==
    { [kind |-> "raises", cause |-> c, agent_type |-> "general_assistant",
       confidence |-> 0, reasoning |-> <<>>, has_params |-> FALSE,
       kwargs |-> NoKwargs, extra |-> FALSE] : c \in Causes }
    \cup
    { [kind |-> "refusal", cause |-> <<>>, agent_type |-> "general_assistant",
       confidence |-> 0, reasoning |-> <<>>, has_params |-> FALSE,
       kwargs |-> NoKwargs, extra |-> FALSE] }
    \cup
    { [kind |-> "content", cause |-> <<>>, agent_type |-> a, confidence |-> c,
       reasoning |-> <<"why">>, has_params |-> FALSE, kwargs |-> NoKwargs,
       extra |-> x] :
        a \in ReplyAgentTypes, c \in ReplyConfidences, x \in BOOLEAN }
    \cup
    { [kind |-> "content", cause |-> <<>>, agent_type |-> a, confidence |-> c,
       reasoning |-> <<"why">>, has_params |-> TRUE, kwargs |-> kw,
       extra |-> x] :
        a \in ReplyAgentTypes, c \in ReplyConfidences, kw \in ReplyKwargs,
        x \in BOOLEAN }

\* one construction of ExtractedParams, as the history keeps it
Construction(kwargs, outcome) == [kwargs |-> kwargs, outcome |-> outcome]

\* parse (lines 43-51) on a reply: the outcome of the call, with the
\* ExtractedParams constructions it made while validating the content
parse(r) ==
    IF r.kind = "raises"
    THEN [raises |-> TRUE, cause |-> r.cause, value |-> [kind |-> "None"],
          constructed |-> <<>>]
    ELSE IF r.kind = "refusal"
    THEN [raises |-> FALSE, cause |-> <<>>, value |-> [kind |-> "None"],
          constructed |-> <<>>]
    ELSE LET nested == IF r.has_params THEN ExtractedParams(r.kwargs)
                       ELSE [raises |-> FALSE, value |-> NoParams.value]
             made == IF r.has_params
                     THEN << Construction(r.kwargs, nested) >> ELSE <<>>
             params == IF r.has_params THEN SomeParams(nested.value)
                       ELSE NoParams
             whole == RouteClassification(r.agent_type, r.confidence,
                                          r.reasoning, params, r.extra)
         IN  IF nested.raises \/ whole.raises
             THEN [raises |-> TRUE, cause |-> <<"validation error">>,
                   value |-> [kind |-> "None"], constructed |-> made]
             ELSE [raises |-> FALSE, cause |-> <<>>, value |-> whole.value,
                   constructed |-> made]

\* line 59, in tenths
FallbackConfidence == 5

\* line 60
FallbackReasoning(cause) ==
    <<"Routing failed, defaulting to general assistant: ">> \o cause

\* line 61: the keywords of the fallback's ExtractedParams
FallbackKwargs == [k \in {"category"} |-> Str(<<"fallback">>)]

\* the except branch, lines 55-62
Fallback(cause) ==
    LET nested == ExtractedParams(FallbackKwargs)
        whole == RouteClassification("general_assistant", FallbackConfidence,
                                     FallbackReasoning(cause),
                                     SomeParams(nested.value), FALSE)
    IN  [raises |-> nested.raises \/ whole.raises,
         value |-> whole.value,
         constructed |-> << Construction(FallbackKwargs, nested) >>]

\* classify_request with no try/except around the provider call
classify_request_uncaught(r) ==
    LET parsed == parse(r)
    IN  [raises |-> parsed.raises, value |-> parsed.value, calls |-> 1,
         constructed |-> parsed.constructed]

\* classify_request, lines 42-62: one provider call; what it returns is
\* handed back as it is (line 53); any exception goes to the fallback
classify_request(r) ==
    LET parsed == parse(r)
        fallback == Fallback(parsed.cause)
    IN  IF parsed.raises
        THEN [raises |-> fallback.raises, value |-> fallback.value, calls |-> 1,
              constructed |-> parsed.constructed \o fallback.constructed]
        ELSE [raises |-> FALSE, value |-> parsed.value, calls |-> 1,
              constructed |-> parsed.constructed]

\* chat.py line 17: classification = router.classify_request(user_prompt)
ClassifyRequest ==
    /\ chat_pc = "classify"
    /\ LET result == classify_request(reply)
       IN  /\ chat_pc' = IF result.raises THEN "raised" ELSE "extract"
           /\ classification' = result.value
           /\ provider_calls' = provider_calls + result.calls
           /\ constructed' = constructed \o result.constructed
    /\ steps' = Append(steps, "classify")
    /\ UNCHANGED <<user_prompt, reply, memory_hits, doc_hits, extracted_params,
                   agent, response, memory_store>>
    /\ UNCHANGED <<loop_vars, file_vars, dir_vars>>

\* ------------------------------------------------------------------------
\* agent_router.py: AgentRouter.extract_specific_params (lines 64-74)
\* ------------------------------------------------------------------------

\* model_dump(exclude_none=True), line 67: the fields that are not None
model_dump_exclude_none(instance) ==
    LET keys == { f \in ExtractedParamsFields : ~instance[f].null }
    IN  [f \in keys |-> instance[f].str]

\* {"prompt": user_prompt}, lines 70 and 74
PromptOnly(text) == [k \in {"prompt"} |-> text]

\* extract_specific_params that always adds the prompt to what it dumps
extract_specific_params_with_prompt(c, text) ==
    IF c.extracted_params.present
    THEN LET dumped == model_dump_exclude_none(c.extracted_params.value)
         IN  [k \in DOMAIN dumped \cup {"prompt"} |->
                 IF k = "prompt" THEN text ELSE dumped[k]]
    ELSE PromptOnly(text)

\* extract_specific_params, lines 64-74, for a RouteClassification c: an
\* ExtractedParams instance is always truthy (line 65); the prompt is added
\* only to an empty dump (line 69)
extract_specific_params(c, text) ==
    IF c.extracted_params.present
    THEN LET dumped == model_dump_exclude_none(c.extracted_params.value)
         IN  IF DOMAIN dumped = {} THEN PromptOnly(text) ELSE dumped
    ELSE PromptOnly(text)

\* chat.py line 20: extracted_params = router.extract_specific_params(...);
\* on None, line 65 reads None.extracted_params and raises AttributeError,
\* which chat_with_ai does not catch
ExtractSpecificParams ==
    /\ chat_pc = "extract"
    /\ IF classification.kind = "RouteClassification"
       THEN /\ extracted_params' =
                    extract_specific_params(classification, user_prompt)
            /\ chat_pc' = "memory_search"
       ELSE /\ chat_pc' = "raised"
            /\ UNCHANGED extracted_params
    /\ steps' = Append(steps, "extract")
    /\ UNCHANGED <<user_prompt, reply, memory_hits, doc_hits, classification,
                   agent, response, memory_store, provider_calls, constructed>>
    /\ UNCHANGED <<loop_vars, file_vars, dir_vars>>

\* process_request is not running
LoopIdle ==
    /\ pc = "idle"
    /\ messages = <<>>
    /\ full_response = None
    /\ tool_calls = <<>>
    /\ used_tools = <<>>
    /\ finish_reason = "unbound"
    /\ call_idx = 0
    /\ turn = 0
    /\ chunks = 0
    /\ turn_chunks = 0
    /\ sent = NothingSent
    /\ sent_finish = "none"
    /\ finishes = <<>>
    /\ dispatches = 0
    /\ calls_at = <<>>
    /\ log = <<>>
    /\ text_sent = None

\* the router on every user text and every reply of the provider
InitRouter ==
    /\ LoopIdle
    /\ FileIdle
    /\ DirIdle
    /\ chat_pc = "classify"
    /\ user_prompt \in UserPrompts
    /\ reply \in Replies
    /\ memory_hits = <<>>
    /\ doc_hits = <<>>
    /\ classification = Unset
    /\ extracted_params = EmptyDict
    /\ agent = "none"
    /\ response = None
    /\ memory_store = <<>>
    /\ provider_calls = 0
    /\ constructed = <<>>
    /\ steps = <<>>

NextRouter ==
    \/ ClassifyRequest
    \/ ExtractSpecificParams

SpecRouter == InitRouter /\ [][NextRouter]_vars

\* the router has classified: classify_request returned or raised
Classified == chat_pc \notin {"idle", "classify"}

\* C11: when the provider call raises, classify_request does not raise; it
\* returns a decision with agent type general_assistant and confidence 0.5
\* whose reasoning ends with the cause, and it has called the provider once
C11_FallbackOnProviderException ==
    (Classified /\ reply.kind = "raises") =>
        /\ chat_pc # "raised"
        /\ classification.kind = "RouteClassification"
        /\ classification.agent_type = "general_assistant"
        /\ classification.confidence = FallbackConfidence
        /\ \E prefix \in {<<"Routing failed, defaulting to general assistant: ">>} :
              classification.reasoning = prefix \o reply.cause
        /\ provider_calls = 1

C11_Witness ==
    /\ Classified
    /\ reply.kind = "raises"
    /\ reply.cause = <<"timeout">>
    /\ classification.kind = "RouteClassification"
    /\ provider_calls = 1

\* the decision classify_request returned on a provider call that raised
FallbackReturned ==
    /\ Classified
    /\ reply.kind = "raises"
    /\ classification.kind = "RouteClassification"

\* C12: when the provider call raises, the extracted_params of the returned
\* decision contain the entry category = "fallback"
C12_FallbackCarriesCategory ==
    FallbackReturned =>
        /\ classification.extracted_params.present
        /\ "category" \in DOMAIN classification.extracted_params.value
        /\ classification.extracted_params.value["category"] = Str(<<"fallback">>)

\* C13: whatever the provider call does, classify_request returns a
\* RouteClassification whose agent type is one of the three of AgentType
\* and whose confidence lies in [0.0, 1.0]
C13_AlwaysValidDecision ==
    Classified =>
        /\ chat_pc # "raised"
        /\ classification.kind = "RouteClassification"
        /\ classification.agent_type \in AgentType
        /\ ConfidenceMin <= classification.confidence
        /\ classification.confidence <= ConfidenceMax

\* extract_specific_params has just returned
ParamsExtracted ==
    /\ chat_pc = "memory_search"
    /\ classification.kind = "RouteClassification"

\* the fields of the decision's extracted_params that are not None
NonNullFields ==
    IF classification.extracted_params.present
    THEN { f \in ExtractedParamsFields :
              ~classification.extracted_params.value[f].null }
    ELSE {}

\* C14: extract_specific_params returns a non-empty mapping: exactly
\* {"prompt": user text} when extracted_params is absent or all of its
\* fields are None, otherwise exactly the fields that are not None, with
\* their values and with no prompt key
C14_ExtractSpecificParams ==
    ParamsExtracted =>
        /\ DOMAIN extracted_params # {}
        /\ IF NonNullFields = {}
           THEN extracted_params = PromptOnly(user_prompt)
           ELSE /\ DOMAIN extracted_params = NonNullFields
                /\ "prompt" \notin DOMAIN extracted_params
                /\ \A f \in NonNullFields :
                      extracted_params[f] =
                          classification.extracted_params.value[f].str

\* a decision with an empty text, a text and a None among its parameters
C14_Witness ==
    /\ ParamsExtracted
    /\ classification.extracted_params.present
    /\ classification.extracted_params.value["directory"] = Str(<<>>)
    /\ classification.extracted_params.value["file_path"] = Str(<<"x">>)
    /\ classification.extracted_params.value["order_id"] = Null
    /\ DOMAIN extracted_params = {"directory", "file_path"}

\* the constructions of ExtractedParams that named an undeclared field
UnknownFieldConstructions ==
    { i \in DOMAIN constructed :
         ~(DOMAIN constructed[i].kwargs \subseteq ExtractedParamsFields) }

\* C15 as the specification states it: constructing ExtractedParams with a
\* field other than directory, file_path and order_id is rejected with an error
C15_ClosedSchema ==
    \A i \in UnknownFieldConstructions : constructed[i].outcome.raises

\* C15: ExtractedParams is not closed: a construction that names an
\* undeclared field succeeds, and the instance has the three declared fields
\* only, the undeclared one being dropped; RouteClassification is closed: a
\* reply with an undeclared top-level field fails validation, which
\* classify_request answers with the fallback decision
C15_UnknownFieldsDropped ==
    /\ \A i \in UnknownFieldConstructions :
          /\ ~constructed[i].outcome.raises
          /\ DOMAIN constructed[i].outcome.value = ExtractedParamsFields
          /\ \A f \in ExtractedParamsFields :
                constructed[i].outcome.value[f] =
                    IF f \in DOMAIN constructed[i].kwargs
                    THEN constructed[i].kwargs[f] ELSE Null
    /\ (Classified /\ reply.kind = "content" /\ reply.extra) =>
          /\ classification.kind = "RouteClassification"
          /\ classification.reasoning = FallbackReasoning(<<"validation error">>)

\* the fallback's construction ExtractedParams(category="fallback") succeeded
C15_Witness ==
    /\ Classified
    /\ reply.kind = "raises"
    /\ \E i \in UnknownFieldConstructions :
          /\ constructed[i].kwargs = FallbackKwargs
          /\ ~constructed[i].outcome.raises

\* C16: a call whose tool name is none of directory_tool, file_tool and
\* get_order_detail gets "Unknown tool" from execute_tool, which does not
\* raise; the loop appends it as the tool-result of that call id and goes on:
\* with the next call of the batch, or past the dispatch when it was the last
C16_UnknownToolIsOrdinaryResult ==
    [][ pc = "dispatch" =>
          LET done == log'[Len(log')]
              m    == messages'[Len(messages')]
          IN  (done.outcome # "skipped" /\ done.name \notin KnownTools) =>
                  /\ done.outcome = "returned"
                  /\ done.value = <<"Unknown tool">>
                  /\ messages' = Append(messages, m)
                  /\ m.role = "tool"
                  /\ m.tool_call_id = done.id
                  /\ m.content = <<"Unknown tool">>
                  /\ IF call_idx < Len(tool_calls)
                     THEN pc' = "dispatch" /\ call_idx' = call_idx + 1
                     ELSE pc' \in {"stream", "call", "done"} ]_vars

\* a call with an unknown name was answered with "Unknown tool", a later
\* call of the same batch ran, and the conversation went on to its end
C16_Witness ==
    /\ pc = "done"
    /\ \E i \in 1..Len(log) :
          /\ i < Len(log)
          /\ log[i].batch = log[i + 1].batch
          /\ log[i].name \notin KnownTools
          /\ log[i].outcome = "returned"
          /\ log[i].value = <<"Unknown tool">>
          /\ log[i + 1].outcome # "skipped"
    /\ \E j \in 1..Len(ToolMessages) : ToolMessages[j].content = <<"Unknown tool">>

\* ------------------------------------------------------------------------
\* agents.py: AgentFactory.create_agent and the agents' tool sets
\* ------------------------------------------------------------------------

\* create_agent with the two specialists exchanged
create_agent_exchanged(agent_type) ==
    IF agent_type = "developer_assistant" THEN "CustomerAssistantAgent"
    ELSE IF agent_type = "customer_assistant" THEN "DeveloperAssistantAgent"
    ELSE "GeneralAssistantAgent"

\* AgentFactory.create_agent, lines 310-317: the class of the agent returned
create_agent(agent_type) ==
    IF agent_type = "developer_assistant" THEN "DeveloperAssistantAgent"
    ELSE IF agent_type = "customer_assistant" THEN "CustomerAssistantAgent"
    ELSE "GeneralAssistantAgent"

\* get_available_tools of the three agent classes (lines 184-190, 276-286,
\* 303-304): the names of the tools offered to the provider
get_available_tools(agent_class) ==
    IF agent_class = "DeveloperAssistantAgent"
    THEN {directory_tool_name, file_tool_name}
    ELSE IF agent_class = "CustomerAssistantAgent"
    THEN {get_order_detail_name}
    ELSE {}

\* chat.py line 45: agent = AgentFactory.create_agent(classification.agent_type.value)
CreateAgent ==
    /\ chat_pc = "create_agent"
    /\ agent' = create_agent(classification.agent_type)
    /\ chat_pc' = "process"
    /\ steps' = Append(steps, "create_agent")
    /\ UNCHANGED <<user_prompt, reply, memory_hits, doc_hits, classification,
                   extracted_params, response, memory_store, provider_calls,
                   constructed>>
    /\ UNCHANGED <<loop_vars, file_vars, dir_vars>>

\* the agent type texts create_agent is given: the values of AgentType, the
\* name of a member instead of its value, an unknown kind and the empty text
AgentTypeTexts ==
    AgentType \cup {"DEVELOPER_ASSISTANT", "billing_assistant", ""}

\* the decisions create_agent is tried on: every agent type text with
\* every confidence and every value of extracted_params
FactoryDecisions ==
    { [kind |-> "RouteClassification", agent_type |-> a, confidence |-> c,
       reasoning |-> <<"why">>, extracted_params |-> p] :
        a \in AgentTypeTexts,
        c \in {ConfidenceMin, FallbackConfidence, ConfidenceMax},
        p \in {NoParams} \cup
              { SomeParams(ExtractedParams(kw).value) : kw \in ReplyKwargs } }

\* create_agent alone, on every decision and user text
InitFactory ==
    /\ LoopIdle
    /\ FileIdle
    /\ DirIdle
    /\ chat_pc = "create_agent"
    /\ user_prompt \in UserPrompts
    /\ reply = Unset
    /\ memory_hits = <<>>
    /\ doc_hits = <<>>
    /\ classification \in FactoryDecisions
    /\ extracted_params = extract_specific_params(classification, user_prompt)
    /\ agent = "none"
    /\ response = None
    /\ memory_store = <<>>
    /\ provider_calls = 0
    /\ constructed = <<>>
    /\ steps = <<>>

NextFactory == CreateAgent

SpecFactory == InitFactory /\ [][NextFactory]_vars

\* create_agent has returned
AgentCreated == agent # "none"

\* C17: the agent depends on the decision's agent type only:
\* developer_assistant gives the agent whose tools are exactly directory_tool
\* and file_tool, customer_assistant the agent whose only tool is
\* get_order_detail, every other value the general agent, which has no tool
C17_AgentByKindOnly ==
    AgentCreated =>
        IF classification.agent_type = "developer_assistant"
        THEN /\ agent = "DeveloperAssistantAgent"
             /\ get_available_tools(agent) = {directory_tool_name, file_tool_name}
        ELSE IF classification.agent_type = "customer_assistant"
        THEN /\ agent = "CustomerAssistantAgent"
             /\ get_available_tools(agent) = {get_order_detail_name}
        ELSE /\ agent = "GeneralAssistantAgent"
             /\ get_available_tools(agent) = {}

\* an agent type that is no value of AgentType was given the general agent
C17_Witness ==
    /\ AgentCreated
    /\ classification.agent_type = "billing_assistant"
    /\ classification.extracted_params.present
    /\ agent = "GeneralAssistantAgent"

\* ------------------------------------------------------------------------
\* chat.py: chat_with_ai (lines 13-62)
\* ------------------------------------------------------------------------

\* bound: the chunks the provider sends during one chat_with_ai
ChatMaxChunks == 2

\* d[k] = v on a dict
SetKey(d, k, v) == [x \in DOMAIN d \cup {k} |-> IF x = k THEN v ELSE d[x]]

\* d.get(k, "") on a dict
GetOrEmpty(d, k) == IF k \in DOMAIN d THEN d[k] ELSE <<>>

RECURSIVE BulletLines(_)
\* "\n".join(f"- {entry}" for entry in entries), lines 28 and 36
BulletLines(entries) ==
    IF entries = <<>> THEN <<>>
    ELSE IF Len(entries) = 1 THEN <<"- ", entries[1]>>
    ELSE <<"- ", entries[1], "\n">> \o BulletLines(Tail(entries))

\* what memory_client.search(query, user_id, limit=3) may return
MemoryHits == { <<>>, <<"m1", "m2">> }

\* what retrieve(user_prompt, top_k=3) may return
DocHits == { <<>>, <<"d1">> }

\* the replies of the router's provider chat_with_ai is run on: a failed
\* call, a refusal, and a decision for each specialist with one parameter
ChatReplies ==
    { r \in Replies :
        \/ r.kind = "raises" /\ r.cause = <<"timeout">>
        \/ r.kind = "refusal"
        \/ /\ r.kind = "content" /\ ~r.extra /\ r.confidence = ConfidenceMax
           /\ r.has_params
           /\ \/ /\ r.agent_type = "developer_assistant"
                 /\ r.kwargs = [k \in {"directory"} |-> Str(<<"x">>)]
              \/ /\ r.agent_type = "customer_assistant"
                 /\ r.kwargs = [k \in {"order_id"} |-> Str(<<"x">>)] }

\* lines 23-29: memory search; the hits, if any, go to memory_context
MemorySearch ==
    /\ chat_pc = "memory_search"
    /\ \E ok \in BOOLEAN :
         IF ok
         THEN /\ extracted_params' =
                    IF memory_hits # <<>>
                    THEN SetKey(extracted_params, "memory_context",
                                BulletLines(memory_hits))
                    ELSE extracted_params
              /\ chat_pc' = "retrieve"
         ELSE /\ chat_pc' = "raised"
              /\ UNCHANGED extracted_params
    /\ steps' = Append(steps, "memory_search")
    /\ UNCHANGED <<user_prompt, reply, memory_hits, doc_hits, classification,
                   agent, response, memory_store, provider_calls, constructed>>
    /\ UNCHANGED <<loop_vars, file_vars, dir_vars>>

\* lines 32-36: document retrieval; the documents, if any, go to rag_context
Retrieve ==
    /\ chat_pc = "retrieve"
    /\ \E ok \in BOOLEAN :
         IF ok
         THEN /\ extracted_params' =
                    IF doc_hits # <<>>
                    THEN SetKey(extracted_params, "rag_context",
                                BulletLines(doc_hits))
                    ELSE extracted_params
              /\ chat_pc' = "create_agent"
         ELSE /\ chat_pc' = "raised"
              /\ UNCHANGED extracted_params
    /\ steps' = Append(steps, "retrieve")
    /\ UNCHANGED <<user_prompt, reply, memory_hits, doc_hits, classification,
                   agent, response, memory_store, provider_calls, constructed>>
    /\ UNCHANGED <<loop_vars, file_vars, dir_vars>>

\* agents.py lines 47-62: the system prompt of process_request
SystemPrompt(agent_class, params) ==
    LET relevant_memories == GetOrEmpty(params, "memory_context")
        rag_context == GetOrEmpty(params, "rag_context")
    IN  <<agent_class, "system_prompt">>
        \o (IF relevant_memories # <<>>
            THEN <<"\n\n**User Memories:**\n">> \o relevant_memories ELSE <<>>)
        \o (IF rag_context # <<>>
            THEN <<"\n\n**Company Documents:**\n">> \o rag_context ELSE <<>>)
        \o <<"\n\n**Date Context:**\n", "date_context", "\n\n">>

\* chat.py line 48 entering agents.py lines 44-71: process_request starts
\* with the system message and the user message and empty accumulators
StartProcessRequest ==
    /\ chat_pc = "process"
    /\ pc = "idle"
    /\ pc' = "call"
    /\ messages' = << Message("system", SystemPrompt(agent, extracted_params),
                              <<>>, None, None),
                      Message("user", user_prompt, <<>>, None, None) >>
    /\ full_response' = None
    /\ tool_calls' = <<>>
    /\ used_tools' = <<>>
    /\ steps' = Append(steps, "process_request")
    /\ UNCHANGED <<finish_reason, call_idx, turn, chunks, turn_chunks, sent,
                   sent_finish, finishes, dispatches, calls_at, log, text_sent>>
    /\ UNCHANGED <<chat_pc, user_prompt, reply, memory_hits, doc_hits,
                   classification, extracted_params, agent, response,
                   memory_store, provider_calls, constructed>>
    /\ UNCHANGED <<file_vars, dir_vars>>

\* chat.py line 48 returning: response = what process_request returned
\* (agents.py line 166); an exception of process_request leaves chat_with_ai
ProcessReturns ==
    /\ chat_pc = "process"
    /\ pc \in {"done", "raised"}
    /\ IF pc = "done"
       THEN /\ response' = full_response
            /\ chat_pc' = "memory_add"
       ELSE /\ chat_pc' = "raised"
            /\ UNCHANGED response
    /\ steps' = Append(steps, "process_returned")
    /\ UNCHANGED <<user_prompt, reply, memory_hits, doc_hits, classification,
                   extracted_params, agent, memory_store, provider_calls,
                   constructed>>
    /\ UNCHANGED <<loop_vars, file_vars, dir_vars>>

\* memory_messages with the two entries exchanged
memory_messages_exchanged(prompt, answer) ==
    << [role |-> "assistant", content |-> answer],
       [role |-> "user", content |-> prompt] >>

\* lines 50-53
memory_messages(prompt, answer) ==
    << [role |-> "user", content |-> prompt],
       [role |-> "assistant", content |-> answer] >>

\* lines 55-62: memory_client.add(memory_messages, ...), then return response
MemoryAdd ==
    /\ chat_pc = "memory_add"
    /\ \E ok \in BOOLEAN :
         IF ok
         THEN /\ memory_store' =
                    Append(memory_store, memory_messages(user_prompt, response))
              /\ chat_pc' = "returned"
         ELSE /\ chat_pc' = "raised"
              /\ UNCHANGED memory_store
    /\ steps' = Append(steps, "memory_add")
    /\ UNCHANGED <<user_prompt, reply, memory_hits, doc_hits, classification,
                   extracted_params, agent, response, provider_calls,
                   constructed>>
    /\ UNCHANGED <<loop_vars, file_vars, dir_vars>>

\* one request: chat_with_ai on a user text, with what its collaborators answer
InitChat ==
    /\ LoopIdle
    /\ FileIdle
    /\ DirIdle
    /\ chat_pc = "classify"
    /\ user_prompt \in UserPrompts
    /\ reply \in ChatReplies
    /\ memory_hits \in MemoryHits
    /\ doc_hits \in DocHits
    /\ classification = Unset
    /\ extracted_params = EmptyDict
    /\ agent = "none"
    /\ response = None
    /\ memory_store = <<>>
    /\ provider_calls = 0
    /\ constructed = <<>>
    /\ steps = <<>>

NextChat ==
    \/ ClassifyRequest
    \/ ExtractSpecificParams
    \/ MemorySearch
    \/ Retrieve
    \/ CreateAgent
    \/ StartProcessRequest
    \/ ProviderCall
    \/ ConsumeChunk /\ chunks < ChatMaxChunks
    \/ StreamEnd
    \/ DispatchCall
    \/ ProcessReturns
    \/ MemoryAdd

SpecChat == InitChat /\ [][NextChat]_vars

\* the steps of chat_with_ai in the order of its lines
StepOrder ==
    << "classify", "extract", "memory_search", "retrieve", "create_agent",
       "process_request", "process_returned", "memory_add" >>

\* the step has been taken
Took(step) == \E i \in DOMAIN steps : steps[i] = step

\* C18: the steps of one request are taken in the order classify, memory
\* search, document retrieval, orchestration loop, memory write, none twice
\* and none ahead of an earlier one; the loop makes its provider calls
\* between the retrieval and the memory write; a request that returned has
\* written the memory store exactly once; a write happens only after the
\* loop has ended with "stop", and what is written is the user text followed
\* by the loop's response
C18_StepsInOrderOneMemoryWrite ==
    /\ Len(steps) <= Len(StepOrder)
    /\ \A i \in DOMAIN steps : steps[i] = StepOrder[i]
    /\ turn > 0 => Took("retrieve") /\ Took("process_request")
    /\ pc \notin {"idle", "done", "raised"} => ~Took("process_returned")
    /\ Len(memory_store) <= 1
    /\ chat_pc = "returned" => Len(memory_store) = 1
    /\ Len(memory_store) = 1 =>
          /\ Took("memory_add")
          /\ pc = "done"
          /\ finish_reason = "stop"
          /\ memory_store[1] =
                << [role |-> "user", content |-> user_prompt],
                   [role |-> "assistant", content |-> full_response] >>

\* a request with memories and documents whose loop ran a tool, answered
\* with text, and whose exchange was written
C18_Witness ==
    /\ chat_pc = "returned"
    /\ memory_hits # <<>>
    /\ doc_hits # <<>>
    /\ \E i \in 1..Len(log) : log[i].outcome = "returned"
    /\ full_response # None
    /\ Len(memory_store) = 1
    /\ memory_store[1][2].content = full_response

\* ------------------------------------------------------------------------
\* tools.py: file_tool on a readable text file (lines 73-100)
\* ------------------------------------------------------------------------

\* bound: the number of lines of a file
MaxLines == 3

Max(a, b) == IF a >= b THEN a ELSE b

Min(a, b) == IF a <= b THEN a ELSE b

\* the Python slice seq[a:b]: a negative index counts from the end, and
\* both indexes are clipped to the sequence
PySlice(seq, a, b) ==
    LET n == Len(seq)
        lo == IF a < 0 THEN Max(a + n, 0) ELSE Min(a, n)
        hi == IF b < 0 THEN Max(b + n, 0) ELSE Min(b, n)
    IN  SubSeq(seq, lo + 1, hi)

\* lines 90-92: enumerate(selected_lines, start=start_line), each line with
\* the number that f"{i:4d}: {line}" puts before it
Numbered(selected, first) ==
    [i \in 1..Len(selected) |-> [number |-> first + i - 1, line |-> selected[i]]]

\* the header of lines 94-98
Header(full, from, to, total) ==
    [full |-> full, from |-> from, to |-> to, total |-> total]

\* what file_tool returns for the content lines and the two arguments
\* (lines 76-100): the OutOfRange text of line 84, or header and numbered lines
file_tool_lines(lines, first, last) ==
    LET total == Len(lines)
        until == IF last = -1 THEN total ELSE last
        start == Max(1, first)
        end == Min(total, until)
        selected_lines == PySlice(lines, start - 1, end)
    IN  IF start > total
        THEN [kind |-> "error", start |-> start,
              header |-> Header(FALSE, 0, 0, total), numbered_lines |-> <<>>]
        ELSE [kind |-> "ok", start |-> start,
              header |-> IF start = 1 /\ end = total
                         THEN Header(TRUE, 1, total, total)
                         ELSE Header(FALSE, start, end, total),
              numbered_lines |-> Numbered(selected_lines, start)]

\* the texts of a line
LineTexts == {"a", "b"}

\* the files: every sequence of at most MaxLines lines
Files == UNION { [1..n -> LineTexts] : n \in 0..MaxLines }

\* the values of start_line: below 1, inside the file, and up to N + 5
StartLines == (-1)..(MaxLines + 5)

\* the values of end_line: below -1, -1, 0, inside the file and beyond it
EndLines == (-(MaxLines + 1))..(MaxLines + 1)

\* file_tool(filepath, start_line, end_line) on a readable text file
FileTool ==
    /\ file_result.kind = "unset"
    /\ file_result' = file_tool_lines(file_lines, start_line, end_line)
    /\ UNCHANGED <<file_lines, start_line, end_line>>
    /\ UNCHANGED <<loop_vars, chat_vars, dir_vars>>

\* file_tool on every file and every pair of arguments
InitFile ==
    /\ LoopIdle
    /\ ChatIdle
    /\ DirIdle
    /\ file_lines \in Files
    /\ start_line \in StartLines
    /\ end_line \in EndLines
    /\ file_result = Unset

NextFile == FileTool

SpecFile == InitFile /\ [][NextFile]_vars

\* file_tool has returned
FileToolReturned == file_result.kind # "unset"

\* the lines first..last of the file, each with its own number
LinesOfRange(first, last) ==
    [i \in 1..(last - first + 1) |->
        [number |-> first + i - 1, line |-> file_lines[first + i - 1]]]

\* C19: for a file of N lines, N >= 0, file_tool(path, 1, -1) returns all N
\* lines under the header "Full content (N lines)", and
\* file_tool(path, N + 5, -1) returns the OutOfRange error
C19_RangeLaw ==
    FileToolReturned =>
        /\ (start_line = 1 /\ end_line = -1) =>
              /\ file_result.kind = "ok"
              /\ file_result.header.full
              /\ file_result.header.total = Len(file_lines)
              /\ file_result.numbered_lines = LinesOfRange(1, Len(file_lines))
        /\ (start_line = Len(file_lines) + 5 /\ end_line = -1) =>
              file_result.kind = "error"

\* C20: with start clamped to max(1, start_line) and end to min(N, end_line),
\* end_line = -1 meaning N, file_tool returns the OutOfRange error when the
\* clamped start exceeds N, and otherwise exactly the lines from the clamped
\* start to the clamped end, each with its own number, under a header that
\* names that range
C20_ClampedRange ==
    FileToolReturned =>
        LET total == Len(file_lines)
            start == Max(1, start_line)
            end == IF end_line = -1 THEN total ELSE Min(total, end_line)
        IN  IF start > total
            THEN file_result.kind = "error"
            ELSE /\ file_result.kind = "ok"
                 /\ file_result.numbered_lines = LinesOfRange(start, end)
                 /\ \/ file_result.header = Header(FALSE, start, end, total)
                    \/ /\ start = 1 /\ end = total
                       /\ file_result.header = Header(TRUE, 1, total, total)

\* ------------------------------------------------------------------------
\* tools.py: directory_tool (lines 29-61)
\* ------------------------------------------------------------------------

\* the entry names of the model, in the order sorted() gives them (code
\* point order of the name, upper case before lower case)
SortedNames == << "B", "a", "b", "c" >>

EntryNames == { SortedNames[i] : i \in DOMAIN SortedNames }

\* the position of a name in the sorted order
Rank(name) == CHOOSE i \in DOMAIN SortedNames : SortedNames[i] = name

\* the sizes of the files of the model, in bytes: below 1024, below
\* 1024 * 1024, and above
FileSizes == {100, 2048, 2097152}

\* an entry is a subdirectory or a file of some size
EntryKinds ==
    { [is_dir |-> TRUE, size |-> 0] } \cup
    { [is_dir |-> FALSE, size |-> s] : s \in FileSizes }

\* the directories: every set of entries with distinct names
Directories == UNION { [names -> EntryKinds] : names \in SUBSET EntryNames }

\* lines 46-52: the unit the size of a file is shown in
size_str(size) ==
    IF size < 1024 THEN "B"
    ELSE IF size < 1024 * 1024 THEN "KB"
    ELSE "MB"

\* lines 40-53: the item appended for one entry
Item(name, entry) ==
    [name |-> name, is_dir |-> entry.is_dir,
     size |-> IF entry.is_dir THEN "" ELSE size_str(entry.size)]

\* sorted(dir_path.iterdir()), line 40: the names in sorted order
SortedEntries(entries) ==
    SelectSeq(SortedNames, LAMBDA n : n \in DOMAIN entries)

\* directory_tool, lines 29-61: an [ERROR] text when the path is missing,
\* is no directory or cannot be read; "is empty" when there is no entry;
\* otherwise one item per entry, in one pass over the sorted entries
directory_tool_listing(kind, entries) ==
    LET order == SortedEntries(entries)
    IN  IF kind # "dir" THEN [kind |-> "error", items |-> <<>>]
        ELSE IF order = <<>> THEN [kind |-> "empty", items |-> <<>>]
        ELSE [kind |-> "listing",
              items |-> [i \in 1..Len(order) |-> Item(order[i], entries[order[i]])]]

\* directory_tool(directory)
DirectoryTool ==
    /\ dir_result.kind = "unset"
    /\ dir_result' = directory_tool_listing(dir_kind, dir_entries)
    /\ UNCHANGED <<dir_kind, dir_entries>>
    /\ UNCHANGED <<loop_vars, chat_vars, file_vars>>

\* directory_tool on every directory, and on paths that are none
InitDir ==
    /\ LoopIdle
    /\ ChatIdle
    /\ FileIdle
    /\ dir_kind \in {"missing", "file", "unreadable", "dir"}
    /\ dir_entries \in Directories
    /\ dir_kind # "dir" => dir_entries = EmptyDict
    /\ dir_result = Unset

NextDir == DirectoryTool

SpecDir == InitDir /\ [][NextDir]_vars

\* directory_tool has returned for an existing directory
DirectoryListed == dir_result.kind # "unset" /\ dir_kind = "dir"

\* C21: for an existing directory with entries, directory_tool lists every
\* entry once, all subdirectories before all files, and the entries of each
\* group in the order of their names; for an empty directory it reports
\* "is empty"
C21_DirectoriesFirstSorted ==
    DirectoryListed =>
        IF DOMAIN dir_entries = {}
        THEN dir_result.kind = "empty"
        ELSE /\ dir_result.kind = "listing"
             /\ Len(dir_result.items) = Cardinality(DOMAIN dir_entries)
             /\ { dir_result.items[i].name : i \in DOMAIN dir_result.items }
                    = DOMAIN dir_entries
             /\ \A i, j \in DOMAIN dir_result.items :
                   i < j =>
                     /\ ~(~dir_result.items[i].is_dir /\ dir_result.items[j].is_dir)
                     /\ dir_result.items[i].is_dir = dir_result.items[j].is_dir
                          => Rank(dir_result.items[i].name)
                               < Rank(dir_result.items[j].name)

\* the iterations of the dispatch loop that handed a call to a tool of the
\* registry (execute_tool found the name; the call was not skipped)
Invocations ==
    { i \in 1..Len(log) : log[i].outcome # "skipped" /\ log[i].name \in KnownTools }

\* C22: during process_request an agent invokes only tools of its own tool
\* set: the general agent none, the customer agent neither directory_tool
\* nor file_tool, the developer agent not get_order_detail, whatever names
\* the provider's tool-call deltas carry
C22_OnlyOwnTools ==
    AgentCreated =>
        \A i \in Invocations : log[i].name \in get_available_tools(agent)

\* position of the last batch message of the conversation, 0 if none
LastBatch == LastBatchAt(messages, Len(messages))

\* the messages that follow the last batch message
AfterLastBatch == SubSeq(messages, LastBatch + 1, Len(messages))

\* the calls of the last batch whose arguments parse
ParsedCalls ==
    SelectSeq(messages[LastBatch].tool_calls,
              LAMBDA c : ~json_loads(c.arguments).error)

\* a provider call is about to be made and a batch was dispatched before it
BeforeCallAfterBatch == pc = "call" /\ LastBatch > 0

\* C23 as the specification states it: before a provider call that follows a
\* dispatched batch, the tool-results after the batch answer every call of
\* the batch exactly once
C23_EveryCallAnswered ==
    BeforeCallAfterBatch =>
        /\ Len(AfterLastBatch) = Len(messages[LastBatch].tool_calls)
        /\ { AfterLastBatch[i].tool_call_id : i \in DOMAIN AfterLastBatch }
             = { messages[LastBatch].tool_calls[k].id :
                    k \in DOMAIN messages[LastBatch].tool_calls }

\* C23: before a provider call that follows a dispatched batch, the messages
\* after the batch are tool-results, one for each call of the batch whose
\* arguments parsed, in slot order, each with the id of its call; a call
\* whose arguments did not parse has no tool-result
C23_EveryParsedCallAnswered ==
    BeforeCallAfterBatch =>
        /\ Len(AfterLastBatch) = Len(ParsedCalls)
        /\ \A i \in DOMAIN AfterLastBatch :
              /\ AfterLastBatch[i].role = "tool"
              /\ AfterLastBatch[i].tool_call_id = ParsedCalls[i].id
              /\ AfterLastBatch[i].tool_name = ParsedCalls[i].name

\* a batch of two calls, one answered and one left without a tool-result
C23_Witness ==
    /\ BeforeCallAfterBatch
    /\ Len(messages[LastBatch].tool_calls) = 2
    /\ Len(ParsedCalls) = 1
    /\ Len(AfterLastBatch) = 1

\* the slot of index i in an accumulator, empty when the list is shorter
SlotAt(tcs, i) == IF i < Len(tcs) THEN tcs[i + 1] ELSE EmptySlot

\* what follows the text before in the text after
Suffix(after, before) == SubSeq(after, Len(before) + 1, Len(after))

\* history: the chunk being consumed carries text as well as tool-call deltas
ConsumesMixedChunk ==
    /\ pc = "stream"
    /\ chunks' = chunks + 1
    /\ full_response' # full_response
    /\ sent' # sent

\* history: every delta the chunk being consumed delivered for slot i has
\* been appended to the fields of slot i
SlotExtended(i) ==
    /\ SlotAt(tool_calls', i).id =
          SlotAt(tool_calls, i).id \o Suffix(sent'[i].id, sent[i].id)
    /\ SlotAt(tool_calls', i).name =
          SlotAt(tool_calls, i).name \o Suffix(sent'[i].name, sent[i].name)
    /\ SlotAt(tool_calls', i).arguments =
          SlotAt(tool_calls, i).arguments
              \o Suffix(sent'[i].arguments, sent[i].arguments)

\* C24: a chunk that carries a text delta and tool-call deltas has both
\* consumed: the text is appended to full_response and every tool-call delta
\* is appended to its slot
C24_MixedChunkFullyConsumed ==
    [][ ConsumesMixedChunk =>
          /\ pc' # "raised"
          /\ full_response' = full_response \o ContentDelta
          /\ \A i \in Indices : SlotExtended(i) ]_vars

\* history: the chunk being consumed is read for its tool-call deltas
ConsumesToolDeltas ==
    /\ pc = "stream"
    /\ chunks' = chunks + 1
    /\ full_response' = full_response
    /\ sent' # sent

\* C25: tool-call deltas are accumulated at the slot their index names in
\* whatever order the indices first appear in a turn (slot 1 before slot 0,
\* an index that skips a slot): each delta lands in its own slot and
\* consuming the chunk raises no error
C25_AnyIndexOrder ==
    [][ ConsumesToolDeltas =>
          /\ pc' # "raised"
          /\ \A i \in Indices : SlotExtended(i) ]_vars

\* C26: every provider call after the first is made with a conversation
\* state strictly longer than that of the call before it, so that a turn
\* that ends without "stop" never has the same request sent again
C26_ConversationGrowsBetweenCalls ==
    \A i \in 2..Len(calls_at) : calls_at[i] > calls_at[i - 1]

\* C27: the text process_request returns is the concatenation, in arrival
\* order, of every text delta received over all turns of the request, those
\* of turns that ended with tool calls included; the conversation state is
\* append-only: no step modifies or removes a message already appended, and
\* its first two messages stay the system prompt and the user's text
C27_ResponseIsAllTextAppendOnly ==
    [][ /\ pc' = "done" => full_response' = text_sent'
        /\ Len(messages') >= Len(messages)
        /\ SubSeq(messages', 1, Len(messages)) = messages
        /\ SubSeq(messages', 1, 2) = InitialMessages ]_vars

\* the request returned two text deltas, one of them received in the first
\* turn, which ended with a dispatched tool call
C27_Witness ==
    /\ pc = "done"
    /\ turn = 2
    /\ turn_chunks = 1
    /\ Len(text_sent) = 2
    /\ full_response = text_sent
    /\ \E i \in 1..Len(log) : log[i].turn = 1 /\ log[i].outcome = "returned"
    /\ Len(messages) > 3

====
